---- MODULE Spec2Model ----
(***************************************************************************)
(* A model of src/index.js: the App class that assembles a G x G x G       *)
(* lattice of planes with front/back word meshes, and its per-frame hover  *)
(* highlight.                                                              *)
(*                                                                         *)
(* Lengths are integers in one common unit.  A word is the sequence of its *)
(* characters; the width the text library measures for a word is the       *)
(* number of its characters times the font's advance (glyphAdvance).  The  *)
(* random jitter and rotation of a plane are not tracked: a plane's matrix *)
(* is represented by the (x, y, z) loop triple it was built from.          *)
(*                                                                         *)
(* Scheduling: JavaScript runs one task at a time.  The sync callbacks of  *)
(* the text meshes arrive one per task, in the order the syncs were        *)
(* requested; the promise continuations a callback releases (layout of the *)
(* cell, adding the group) run in the same task.  Window events and the    *)
(* intro timer may fire between any two tasks.                             *)
(***************************************************************************)
EXTENDS Integers, Sequences, FiniteSets, TLC

VARIABLES
    options,              \* the options object (never written after Init)
    glyphAdvance,         \* the loaded font: advance of one character
    pc,                   \* position of the DOMContentLoaded handler
    autoRotate,           \* #controls.autoRotate
    introTimer,           \* the setTimeout of #playIntroAnimation is pending
    mouse,                \* #mouse
    textMeshCache,        \* #textMeshCache : word -> mesh
    highlightedTextMesh,  \* #highlightedTextMesh
    interactableMeshes,   \* #interactableMeshes
    cursor,               \* #renderer.domElement.style.cursor
    meshes,               \* the heap of Text objects, by identity
    planeMatrices,        \* planeMesh.instanceMatrix: the entries written
    planeCount,           \* planeMesh.count
    cells,                \* the #createTextMeshes calls: one per lattice cell
    syncQueue,            \* meshes whose sync callback has not arrived yet
    textGroup,            \* children of textGroup
    framePc,              \* position inside #processIntersections
    hovered,              \* the local `hovered` of #processIntersections
    effects               \* what the last update() did to the outside world

vars == <<options, glyphAdvance, pc, autoRotate, introTimer, mouse,
          textMeshCache, highlightedTextMesh, interactableMeshes, cursor,
          meshes, planeMatrices, planeCount, cells, syncQueue, textGroup,
          framePc, hovered, effects>>

(***************************************************************************)
(* Bounds of the model.                                                    *)
(***************************************************************************)
MaxGrid == 2
MaxTextLen == 4
MaxMeshes == 8
MaxRectWidth == 3
MaxSpaceWidth == 1
MaxFontSize == 2
MaxLineHeight == 2
MaxGlyphAdvance == 2

(***************************************************************************)
(* Object references.  Text meshes are 1, 2, ... in order of creation.     *)
(***************************************************************************)
Null == -1
Undefined == -2
planeMesh == 0

Alphabet == {"a", " "}

Texts == UNION {[1..n -> Alphabet] : n \in 0..MaxTextLen}

Range(s) == {s[i] : i \in DOMAIN s}

\* text.split(' '), with cur the word being read
RECURSIVE split(_, _)
split(text, cur) ==
    IF text = <<>> THEN <<cur>>
    ELSE IF Head(text) = " "
         THEN <<cur>> \o split(Tail(text), <<>>)
         ELSE split(Tail(text), Append(cur, Head(text)))

words == split(options.text, <<>>)

\* Math.pow(gridSize, 3)
pow3(g) == g * g * g

\* const lineHeight = fontSize * this.options.lineHeight
lineHeight == options.fontSize * options.lineHeight

\* textRenderInfo.blockBounds[2] of a synced mesh
blockWidth(word) == Len(word) * glyphAdvance

NoParent == [cell |-> 0 - 1, side |-> "none"]

\* new Text() with the fields #generateTextMeshes sets
newText(word) ==
    [text |-> word, color |-> options.textColor, maxWidth |-> options.rectWidth,
     width |-> Null, position |-> <<0, 0>>, parent |-> NoParent, cloneOf |-> Null]

\* Text.clone(): a new object with the source's properties, no parent and
\* no render info of its own
clone(ms, id) ==
    [ms[id] EXCEPT !.width = Null, !.parent = NoParent, !.cloneOf = id]

\* mutant of cacheHas: the lookup always misses
cacheHasNever(cache, word) == FALSE

\* Map.prototype.has
cacheHas(cache, word) == word \in DOMAIN cache

\* Map.prototype.set
cacheSet(cache, word, id) ==
    [w \in (DOMAIN cache) \cup {word} |-> IF w = word THEN id ELSE cache[w]]

\* words.map(word => ...) of #generateTextMeshes; h = [meshes, cache, out]
RECURSIVE generateTextMeshes(_, _)
generateTextMeshes(ws, h) ==
    IF ws = <<>> THEN h
    ELSE LET word == Head(ws)
             id == Len(h.meshes) + 1
         IN  IF cacheHas(h.cache, word)
             THEN generateTextMeshes(Tail(ws),
                    [h EXCEPT !.meshes = Append(@, clone(h.meshes, h.cache[word])),
                              !.out = Append(@, id)])
             ELSE generateTextMeshes(Tail(ws),
                    [h EXCEPT !.meshes = Append(@, newText(word)),
                              !.cache = cacheSet(@, word, id),
                              !.out = Append(@, id)])

\* planeMesh.setMatrixAt(index, matrix)
setMatrixAt(ms, index, matrix) ==
    {r \in ms : r.index # index} \cup {[index |-> index, cell |-> matrix]}

\* the body of the innermost loop of #createCubeOfPlanes, with the part of
\* #createTextMeshes that runs before its await
cellBody(x, y, z, acc) ==
    LET g == generateTextMeshes(words,
                [meshes |-> acc.meshes, cache |-> acc.cache, out |-> <<>>])
    IN  [matrices |-> setMatrixAt(acc.matrices, acc.instanceIndex, <<x, y, z>>),
         instanceIndex |-> acc.instanceIndex + 1,
         meshes |-> g.meshes,
         cache |-> g.cache,
         cells |-> Append(acc.cells,
                     [position |-> <<x, y, z>>, meshes |-> g.out, done |-> FALSE]),
         syncQueue |-> acc.syncQueue \o g.out]

\* mutant of cubeLoop: z is not reset when the inner loop is left
RECURSIVE cubeLoopNoReset(_, _, _, _)
cubeLoopNoReset(x, y, z, acc) ==
    IF ~(x < options.gridSize) THEN acc
    ELSE IF ~(y < options.gridSize) THEN cubeLoopNoReset(x + 1, 0, z, acc)
    ELSE IF ~(z < options.gridSize) THEN cubeLoopNoReset(x, y + 1, z, acc)
    ELSE cubeLoopNoReset(x, y, z + 1, cellBody(x, y, z, acc))

\* for (x...) for (y...) for (z...) of #createCubeOfPlanes
RECURSIVE cubeLoop(_, _, _, _)
cubeLoop(x, y, z, acc) ==
    IF ~(x < options.gridSize) THEN acc
    ELSE IF ~(y < options.gridSize) THEN cubeLoop(x + 1, 0, 0, acc)
    ELSE IF ~(z < options.gridSize) THEN cubeLoop(x, y + 1, 0, acc)
    ELSE cubeLoop(x, y, z + 1, cellBody(x, y, z, acc))

createCubeOfPlanes ==
    cubeLoop(0, 0, 0,
        [matrices |-> {}, instanceIndex |-> 0, meshes |-> meshes,
         cache |-> textMeshCache, cells |-> <<>>, syncQueue |-> <<>>])

\* mesh.textRenderInfo?.blockBounds?.[2] || 0
measuredWidth(m) == IF m.width = Null THEN 0 ELSE m.width

\* if (x + width > rectWidth)
needsWrap(x, width) == x + width > options.rectWidth

\* mutant of exceedsHeight: tests the top of the line, not its bottom
exceedsHeightAtLineTop(y) == y < 0 - options.rectWidth

\* if (y - lineHeight < -rectWidth) break
exceedsHeight(y) == y - lineHeight < 0 - options.rectWidth

\* mutant of placeMesh: the front mesh is pushed twice, the back clone never
placeMeshFrontTwice(st, id, x, y, cell) ==
    LET backId == Len(st.meshes) + 1
        placed == [st.meshes EXCEPT ![id].position = <<x, y>>]
        backMesh == [clone(placed, id) EXCEPT !.position = <<x, y>>]
        withBack == Append(placed, backMesh)
    IN  [meshes |-> [withBack EXCEPT
                       ![id].parent = [cell |-> cell, side |-> "front"],
                       ![backId].parent = [cell |-> cell, side |-> "back"]],
         interactable |-> st.interactable \o <<id, id>>,
         front |-> Append(st.front, id),
         back |-> Append(st.back, backId)]

\* the part of the loop body of #layoutTextMeshes after the break test;
\* st = [meshes, interactable, front, back]
placeMesh(st, id, x, y, cell) ==
    LET backId == Len(st.meshes) + 1
        placed == [st.meshes EXCEPT ![id].position = <<x, y>>]
        backMesh == [clone(placed, id) EXCEPT !.position = <<x, y>>]
        withBack == Append(placed, backMesh)
    IN  [meshes |-> [withBack EXCEPT
                       ![id].parent = [cell |-> cell, side |-> "front"],
                       ![backId].parent = [cell |-> cell, side |-> "back"]],
         interactable |-> st.interactable \o <<id, backId>>,
         front |-> Append(st.front, id),
         back |-> Append(st.back, backId)]

\* for (const mesh of meshes) of #layoutTextMeshes
RECURSIVE layoutLoop(_, _, _, _, _)
layoutLoop(rest, x, y, cell, st) ==
    IF rest = <<>> THEN st
    ELSE LET id == Head(rest)
             width == measuredWidth(st.meshes[id])
             wrap == needsWrap(x, width)
             x1 == IF wrap THEN 0 ELSE x
             y1 == IF wrap THEN y - lineHeight ELSE y
         IN  IF exceedsHeight(y1) THEN st
             ELSE layoutLoop(Tail(rest), x1 + width + options.spaceWidth, y1, cell,
                             placeMesh(st, id, x1, y1, cell))

layoutTextMeshes(ids, cell, ms, registry) ==
    layoutLoop(ids, 0, 0, cell,
        [meshes |-> ms, interactable |-> registry, front |-> <<>>, back |-> <<>>])

\* the THREE.Group #createTextMeshes returns: group.add(frontGroup, backGroup)
cellGroup(cell, position, front, back) ==
    [cell |-> cell, position |-> position,
     children |-> <<[name |-> "frontGroup", children |-> front],
                    [name |-> "backGroup", children |-> back]>>]

(***************************************************************************)
(* The hover highlight.  st = [meshes, cursor, effects].                   *)
(***************************************************************************)
Effect(op, mesh, value) == [op |-> op, mesh |-> mesh, value |-> value]

\* the truthiness of ref?.text
hasText(ms, ref) == ref \in DOMAIN ms /\ ms[ref].text # <<>>

\* mutant of sameObject: the early return is never taken
sameObjectNever(a, b) == FALSE

\* if (this.#highlightedTextMesh === hovered) return
sameObject(a, b) == a = b

\* mutant of resetHighlight: the previous target keeps its color
resetHighlightKeepsColor(st, highlighted) ==
    [st EXCEPT !.cursor = "auto",
               !.effects = Append(@, Effect("cursor", Null, "auto"))]

\* mutant of resetHighlight: the cursor is not set back
resetHighlightKeepsCursor(st, highlighted) ==
    IF hasText(st.meshes, highlighted)
    THEN [st EXCEPT
            !.meshes[highlighted].color = options.textColor,
            !.effects = @ \o <<Effect("color", highlighted, options.textColor),
                               Effect("sync", highlighted, "")>>]
    ELSE st

\* this.#resetHighlight()
resetHighlight(st, highlighted) ==
    LET st1 == IF hasText(st.meshes, highlighted)
               THEN [st EXCEPT
                       !.meshes[highlighted].color = options.textColor,
                       !.effects = @ \o <<Effect("color", highlighted, options.textColor),
                                          Effect("sync", highlighted, "")>>]
               ELSE st
    IN  [st1 EXCEPT !.cursor = "auto",
                    !.effects = Append(@, Effect("cursor", Null, "auto"))]

\* mutant of applyHighlight: an empty text payload is highlighted too
applyHighlightAnyText(st, textMesh, color) ==
    IF textMesh \in DOMAIN st.meshes
    THEN [st EXCEPT
            !.meshes[textMesh].color = color,
            !.cursor = "pointer",
            !.effects = @ \o <<Effect("color", textMesh, color),
                               Effect("sync", textMesh, ""),
                               Effect("cursor", Null, "pointer")>>]
    ELSE st

\* this.#applyHighlight(textMesh, color)
applyHighlight(st, textMesh, color) ==
    IF hasText(st.meshes, textMesh)
    THEN [st EXCEPT
            !.meshes[textMesh].color = color,
            !.cursor = "pointer",
            !.effects = @ \o <<Effect("color", textMesh, color),
                               Effect("sync", textMesh, ""),
                               Effect("cursor", Null, "pointer")>>]
    ELSE st

\* intersects[0]?.object || null, for every ray the camera and mouse can give
RaycastResults == {Null} \cup Range(interactableMeshes)

(***************************************************************************)
(* Initial state: the App has been constructed, init() has not run.        *)
(***************************************************************************)
TextColor == "#121212"
HighlightedTextColor == "#ff0000"

Options(g, t, w, fs, lh, sw) ==
    [gridSize |-> g, text |-> t, rectWidth |-> w, fontSize |-> fs,
     lineHeight |-> lh, spaceWidth |-> sw,
     textColor |-> TextColor, highlightedTextColor |-> HighlightedTextColor]

\* the number of Text objects #generateTextMeshes creates for a configuration
GeneratedMeshes(o) == pow3(o.gridSize) * Len(split(o.text, <<>>))

\* lattices with one fixed box: 2 wide, lines 1 high, spaces 1 wide
SceneOptions ==
    {o \in {Options(g, t, 2, 1, 1, 1) : g \in 0..MaxGrid, t \in Texts} :
        GeneratedMeshes(o) <= MaxMeshes}

\* one cell, every box and font metric
LayoutOptions ==
    {Options(1, t, w, fs, lh, sw) :
        t \in Texts, w \in 0..MaxRectWidth, fs \in 1..MaxFontSize,
        lh \in 0..MaxLineHeight, sw \in (0 - 1)..MaxSpaceWidth}

Constructed ==
    /\ pc = "constructed"
    /\ autoRotate = FALSE
    /\ introTimer = FALSE
    /\ mouse = <<0, 0>>
    /\ textMeshCache = <<>>
    /\ highlightedTextMesh = Undefined
    /\ interactableMeshes = <<>>
    /\ cursor = ""
    /\ meshes = <<>>
    /\ planeMatrices = {}
    /\ planeCount = 0
    /\ cells = <<>>
    /\ syncQueue = <<>>
    /\ textGroup = <<>>
    /\ framePc = "idle"
    /\ hovered = Null
    /\ effects = <<>>

Init ==
    /\ options \in SceneOptions
    /\ glyphAdvance = 1
    /\ Constructed

InitLayout ==
    /\ options \in LayoutOptions
    /\ glyphAdvance \in 0..MaxGlyphAdvance
    /\ Constructed

(***************************************************************************)
(* Actions.                                                                *)
(***************************************************************************)
Idle == framePc = "idle"

\* app.init(): the setup calls, the listeners, and #createCubeOfPlanes up to
\* the point where it returns Promise.all(syncPromises)
init ==
    /\ pc = "constructed"
    /\ LET r == createCubeOfPlanes
       IN  /\ planeCount' = pow3(options.gridSize)
           /\ planeMatrices' = r.matrices
           /\ meshes' = r.meshes
           /\ textMeshCache' = r.cache
           /\ cells' = r.cells
           /\ syncQueue' = r.syncQueue
           /\ interactableMeshes' = Append(interactableMeshes, planeMesh)
           /\ pc' = IF r.cells = <<>> THEN "resolved" ELSE "assembling"
    /\ autoRotate' = TRUE
    /\ introTimer' = TRUE
    /\ UNCHANGED <<options, glyphAdvance, mouse, highlightedTextMesh, cursor,
                   textGroup, framePc, hovered, effects>>

\* the cell whose #generateTextMeshes created mesh id
CellOf(id) == CHOOSE c \in DOMAIN cells : id \in Range(cells[c].meshes)

\* the callback of mesh.sync(...) for the oldest pending mesh; when it is
\* the last of its cell, the awaiting #createTextMeshes goes on (layout,
\* group.add, textGroup.add); when that was the last cell, init() resolves
syncCallback ==
    /\ Idle
    /\ pc = "assembling"
    /\ syncQueue # <<>>
    /\ LET id == Head(syncQueue)
           c == CellOf(id)
           synced == [meshes EXCEPT ![id].width = blockWidth(meshes[id].text)]
           complete == \A m \in Range(cells[c].meshes) : synced[m].width # Null
           laid == layoutTextMeshes(cells[c].meshes, c, synced, interactableMeshes)
           cells1 == [cells EXCEPT ![c].done = TRUE]
       IN  /\ syncQueue' = Tail(syncQueue)
           /\ IF complete
              THEN /\ meshes' = laid.meshes
                   /\ interactableMeshes' = laid.interactable
                   /\ textGroup' = Append(textGroup,
                          cellGroup(c, cells[c].position, laid.front, laid.back))
                   /\ cells' = cells1
                   /\ pc' = IF \A k \in DOMAIN cells1 : cells1[k].done
                            THEN "resolved" ELSE "assembling"
              ELSE /\ meshes' = synced
                   /\ UNCHANGED <<interactableMeshes, textGroup, cells, pc>>
    /\ UNCHANGED <<options, glyphAdvance, autoRotate, introTimer, mouse,
                   textMeshCache, highlightedTextMesh, cursor, planeMatrices,
                   planeCount, hovered, framePc, effects>>

\* update(), up to the early return of #processIntersections
update(hit) ==
    /\ Idle
    /\ hovered' = hit
    /\ effects' = <<>>
    /\ framePc' = IF sameObject(highlightedTextMesh, hit) THEN "idle" ELSE "reset"
    /\ UNCHANGED <<options, glyphAdvance, autoRotate, introTimer, mouse,
                   textMeshCache, highlightedTextMesh, interactableMeshes, cursor,
                   meshes, planeMatrices, planeCount, cells, syncQueue, textGroup>>

\* this.#resetHighlight()
resetStep ==
    /\ framePc = "reset"
    /\ LET st == resetHighlight([meshes |-> meshes, cursor |-> cursor,
                                 effects |-> effects], highlightedTextMesh)
       IN  /\ meshes' = st.meshes
           /\ cursor' = st.cursor
           /\ effects' = st.effects
    /\ framePc' = "apply"
    /\ UNCHANGED <<options, glyphAdvance, pc, autoRotate, introTimer, mouse,
                   textMeshCache, highlightedTextMesh, interactableMeshes,
                   planeMatrices, planeCount, cells, syncQueue, textGroup, hovered>>

\* this.#applyHighlight(hovered, highlightedTextColor)
applyStep ==
    /\ framePc = "apply"
    /\ LET st == applyHighlight([meshes |-> meshes, cursor |-> cursor,
                                 effects |-> effects],
                                hovered, options.highlightedTextColor)
       IN  /\ meshes' = st.meshes
           /\ cursor' = st.cursor
           /\ effects' = st.effects
    /\ framePc' = "store"
    /\ UNCHANGED <<options, glyphAdvance, pc, autoRotate, introTimer, mouse,
                   textMeshCache, highlightedTextMesh, interactableMeshes,
                   planeMatrices, planeCount, cells, syncQueue, textGroup, hovered>>

\* this.#highlightedTextMesh = hovered
storeStep ==
    /\ framePc = "store"
    /\ highlightedTextMesh' = hovered
    /\ framePc' = "idle"
    /\ UNCHANGED <<options, glyphAdvance, pc, autoRotate, introTimer, mouse,
                   textMeshCache, interactableMeshes, cursor, meshes,
                   planeMatrices, planeCount, cells, syncQueue, textGroup,
                   hovered, effects>>

\* the continuation of `await app.init()`: animate(), again on every
\* animation frame
animate ==
    /\ pc \in {"resolved", "animating"}
    /\ pc' = "animating"
    /\ \E hit \in RaycastResults : update(hit)

\* the 'resize' listener: installed by init(), it calls this.update()
handleContainerResize ==
    /\ pc # "constructed"
    /\ \E hit \in RaycastResults : update(hit)
    /\ UNCHANGED pc

\* the 'pointermove' listener, for a pointer at the bottom right corner of
\* the container (clientX = clientWidth, clientY = clientHeight)
handlePointerMove ==
    /\ Idle
    /\ pc # "constructed"
    /\ mouse' = <<1 * 2 - 1, 0 - 1 * 2 + 1>>
    /\ UNCHANGED <<options, glyphAdvance, pc, autoRotate, introTimer,
                   textMeshCache, highlightedTextMesh, interactableMeshes, cursor,
                   meshes, planeMatrices, planeCount, cells, syncQueue, textGroup,
                   framePc, hovered, effects>>

\* the setTimeout callback of #playIntroAnimation
introTimeout ==
    /\ Idle
    /\ introTimer
    /\ introTimer' = FALSE
    /\ autoRotate' = FALSE
    /\ UNCHANGED <<options, glyphAdvance, pc, mouse, textMeshCache,
                   highlightedTextMesh, interactableMeshes, cursor, meshes,
                   planeMatrices, planeCount, cells, syncQueue, textGroup,
                   framePc, hovered, effects>>

Next ==
    \/ init
    \/ syncCallback
    \/ animate
    \/ handleContainerResize
    \/ handlePointerMove
    \/ introTimeout
    \/ resetStep
    \/ applyStep
    \/ storeStep

Spec == Init /\ [][Next]_vars

\* scene assembly alone, no window events
NextAssembly ==
    \/ init
    \/ syncCallback

SpecLayout == InitLayout /\ [][NextAssembly]_vars

(***************************************************************************)
(* Vocabulary of the properties.                                           *)
(***************************************************************************)
IsPrefix(s, t) == Len(s) <= Len(t) /\ SubSeq(t, 1, Len(s)) = s

NoDuplicates(s) == \A i, j \in DOMAIN s : s[i] = s[j] => i = j

\* the meshes whose color is the highlight color
Highlighted ==
    {m \in DOMAIN meshes : meshes[m].color = options.highlightedTextColor}

Assembled == pc \in {"resolved", "animating"}

G3 == options.gridSize * options.gridSize * options.gridSize

Coordinates == 0..(options.gridSize - 1)

FrontOf(g) == g.children[1].children
BackOf(g) == g.children[2].children

\* the meshes #generateTextMeshes returned, over all cells
Generated == UNION {Range(cells[c].meshes) : c \in DOMAIN cells}

\* the position of the first occurrence of a word of the text
FirstIndex(w) ==
    CHOOSE i \in DOMAIN words : words[i] = w /\ \A j \in 1..(i - 1) : words[j] # w

(***************************************************************************)
(* C1: at most one mesh has the highlight color at any moment, also inside *)
(* a frame step: before the reset it can only be the stored target, after  *)
(* the reset no mesh has it, after the apply only the new target, and      *)
(* between frame steps it is the stored highlighted target.                *)
(***************************************************************************)
C1_AtMostOneHighlighted ==
    /\ Cardinality(Highlighted) <= 1
    /\ framePc \in {"idle", "reset"} => Highlighted \subseteq {highlightedTextMesh}
    /\ framePc = "apply" => Highlighted = {}
    /\ framePc = "store" => Highlighted \subseteq {hovered}

\* the hover moves from one text mesh to another: the reset has run, the
\* apply has not
C1_Witness ==
    /\ framePc = "apply"
    /\ hasText(meshes, highlightedTextMesh)
    /\ hasText(meshes, hovered)

(***************************************************************************)
(* C2 as stated: the highlighted reference, if set, is registered and has  *)
(* a non-empty text payload.                                               *)
(***************************************************************************)
C2_HighlightedHasTextPayload ==
    highlightedTextMesh \notin {Undefined, Null} =>
        /\ highlightedTextMesh \in Range(interactableMeshes)
        /\ hasText(meshes, highlightedTextMesh)

(***************************************************************************)
(* C2 amended: the highlighted reference, if set, is a member of the       *)
(* registry; when it has no text payload (the plane batch, an empty-word   *)
(* mesh) no mesh is highlighted between frame steps.                       *)
(***************************************************************************)
C2_HighlightedIsRegistered ==
    highlightedTextMesh \notin {Undefined, Null} =>
        /\ highlightedTextMesh \in Range(interactableMeshes)
        /\ (Idle /\ ~hasText(meshes, highlightedTextMesh)) => Highlighted = {}

\* the stored reference is an empty-word mesh, right after a text mesh was
\* un-highlighted
C2_Witness ==
    /\ Idle
    /\ highlightedTextMesh \in DOMAIN meshes
    /\ meshes[highlightedTextMesh].text = <<>>
    /\ \E e \in Range(effects) : e.op = "color"

(***************************************************************************)
(* C3 as stated: update() runs only once the promise of init() has         *)
(* resolved.  A frame step that has started leaves framePc off "idle", and *)
(* the first one to finish stores a value in the highlighted reference.    *)
(***************************************************************************)
C3_NoUpdateBeforeAssembly ==
    (framePc # "idle" \/ highlightedTextMesh # Undefined) => Assembled

C5_CubeOfPlanes ==
    pc # "constructed" =>
        /\ planeCount = G3
        /\ Cardinality(planeMatrices) = G3
        /\ {r.index : r \in planeMatrices} = 0..(G3 - 1)
        /\ {r.cell : r \in planeMatrices} = Coordinates \X Coordinates \X Coordinates
        /\ Len(cells) = G3
        /\ Len(textGroup) <= G3
        /\ Assembled =>
              /\ Len(textGroup) = G3
              /\ {g.cell : g \in Range(textGroup)} = 1..G3
              /\ \A g \in Range(textGroup) :
                    /\ Len(g.children) = 2
                    /\ g.children[1].name = "frontGroup"
                    /\ g.children[2].name = "backGroup"

\* a 2 x 2 x 2 lattice has been assembled
C5_Witness ==
    /\ Assembled
    /\ options.gridSize = 2
    /\ Len(textGroup) = 8

(***************************************************************************)
(* C6 as stated: after init() the cache holds exactly one entry per        *)
(* distinct word of the text, whatever the number of cells.                *)
(***************************************************************************)
C6_CacheHoldsEveryWord ==
    pc # "constructed" => DOMAIN textMeshCache = Range(words)

(***************************************************************************)
(* C6 amended: when at least one cell is built (G >= 1), the cache holds   *)
(* exactly one entry per distinct word; the entry of a word is the mesh    *)
(* constructed for its first occurrence in the first cell, it is the only  *)
(* mesh constructed for that word, and every other occurrence, in any      *)
(* cell, is a clone of it.  With G = 0 the cache stays empty.              *)
(***************************************************************************)
C6_CacheOnePerDistinctWord ==
    pc # "constructed" =>
        /\ options.gridSize = 0 => DOMAIN textMeshCache = {}
        /\ options.gridSize >= 1 =>
              /\ DOMAIN textMeshCache = Range(words)
              /\ \A w \in Range(words) :
                    /\ textMeshCache[w] = cells[1].meshes[FirstIndex(w)]
                    /\ meshes[textMeshCache[w]].text = w
                    /\ meshes[textMeshCache[w]].cloneOf = Null
              /\ Cardinality({m \in Generated : meshes[m].cloneOf = Null})
                    = Cardinality(Range(words))
              /\ \A c \in DOMAIN cells : \A i \in DOMAIN words :
                    LET m == cells[c].meshes[i]
                    IN  /\ meshes[m].text = words[i]
                        /\ m # textMeshCache[words[i]] =>
                              meshes[m].cloneOf = textMeshCache[words[i]]

\* eight cells were built from a one-word text: seven of the eight meshes
\* are clones of the cached one
C6_Witness ==
    /\ Assembled
    /\ options.gridSize = 2
    /\ Cardinality({m \in Generated : meshes[m].cloneOf # Null}) = 7

(***************************************************************************)
(* C7 as stated: every placed word starts at an x with                     *)
(* x <= rectWidth - width, whatever its width.                             *)
(***************************************************************************)
C7_PlacedWordInsideRightEdge ==
    \A g \in Range(textGroup) : \A m \in Range(FrontOf(g)) \cup Range(BackOf(g)) :
        meshes[m].position[1] <= options.rectWidth - blockWidth(meshes[m].text)

(***************************************************************************)
(* C8: in every laid-out cell the placed words are a prefix of the cell's  *)
(* words, each on a line whose bottom y - lineHeight is not below          *)
(* -rectWidth, the back clone at the position of its front mesh; when a    *)
(* word is dropped, it is the first whose line would go below -rectWidth,  *)
(* and no word after it is placed.                                         *)
(***************************************************************************)
C8_PlacedIsPrefixAboveBottom ==
    \A g \in Range(textGroup) :
        LET all == cells[g.cell].meshes
            front == FrontOf(g)
            p == Len(front)
        IN  /\ IsPrefix(front, all)
            /\ Len(BackOf(g)) = p
            /\ \A i \in 1..p :
                  /\ meshes[front[i]].position[2] - lineHeight >= 0 - options.rectWidth
                  /\ meshes[BackOf(g)[i]].position = meshes[front[i]].position
            /\ \A i \in (p + 1)..Len(all) : meshes[all[i]].parent = NoParent
            /\ p < Len(all) =>
                  LET w == blockWidth(meshes[all[p + 1]].text)
                      x == IF p = 0 THEN 0
                           ELSE meshes[front[p]].position[1]
                                + blockWidth(meshes[front[p]].text) + options.spaceWidth
                      y == IF p = 0 THEN 0 ELSE meshes[front[p]].position[2]
                      y1 == IF x + w > options.rectWidth THEN y - lineHeight ELSE y
                  IN  y1 - lineHeight < 0 - options.rectWidth

\* a cell where some words were placed, on two lines, and a later one dropped
C8_Witness ==
    \E g \in Range(textGroup) :
        /\ Len(FrontOf(g)) >= 2
        /\ Len(FrontOf(g)) < Len(cells[g.cell].meshes)
        /\ meshes[FrontOf(g)[Len(FrontOf(g))]].position[2] < 0

(***************************************************************************)
(* C9: between frame steps, once one has run: a hit on a text mesh with a  *)
(* payload leaves that mesh highlighted and the cursor 'pointer'; a hit on *)
(* the plane batch, or no hit, leaves no mesh highlighted and the cursor   *)
(* 'auto'; the cursor is 'pointer' exactly when the highlighted reference  *)
(* has a text payload.                                                     *)
(***************************************************************************)
C9_CursorFollowsHighlight ==
    (Idle /\ highlightedTextMesh # Undefined) =>
        /\ hasText(meshes, hovered) =>
              /\ meshes[hovered].color = options.highlightedTextColor
              /\ cursor = "pointer"
        /\ hovered \in {Null, planeMesh} =>
              /\ Highlighted = {}
              /\ cursor = "auto"
        /\ cursor = "pointer" <=> hasText(meshes, highlightedTextMesh)

\* the pointer has left a highlighted text mesh for the plane batch
C9_Witness ==
    /\ Idle
    /\ hovered = planeMesh
    /\ highlightedTextMesh = planeMesh
    /\ cursor = "auto"
    /\ \E e \in Range(effects) : e.op = "color" /\ e.value = options.textColor

(***************************************************************************)
(* C10: the registry only grows at its end and holds no object twice; the  *)
(* plane batch is its first entry; a text mesh is registered exactly when  *)
(* it is a child of a front or back group; every front child has its own   *)
(* back clone at the same position; no mesh is a child of two groups; and  *)
(* after assembly the registry holds 1 + 2 * G^3 * p objects, p the number *)
(* of words placed in each cell.                                           *)
(***************************************************************************)
\* every place <<group, sub-group, index>> where a group holds a child
Slots ==
    UNION {UNION {{<<n, s, i>> : i \in DOMAIN textGroup[n].children[s].children}
                  : s \in 1..2}
           : n \in DOMAIN textGroup}

ChildAt(k) == textGroup[k[1]].children[k[2]].children[k[3]]

RegistryInv ==
    /\ NoDuplicates(interactableMeshes)
    /\ pc # "constructed" => interactableMeshes # <<>> /\ interactableMeshes[1] = planeMesh
    /\ Range(interactableMeshes) \ {planeMesh} = {ChildAt(k) : k \in Slots}
    /\ Cardinality({ChildAt(k) : k \in Slots}) = Cardinality(Slots)
    /\ \A m \in Generated : meshes[m].parent = NoParent => m \notin Range(interactableMeshes)
    /\ \A g \in Range(textGroup) :
          /\ Len(BackOf(g)) = Len(FrontOf(g))
          /\ \A i \in DOMAIN FrontOf(g) :
                LET f == FrontOf(g)[i]
                    b == BackOf(g)[i]
                IN  /\ f # b
                    /\ f \in Generated
                    /\ meshes[b].cloneOf = f
                    /\ meshes[b].position = meshes[f].position
                    /\ meshes[f].parent = [cell |-> g.cell, side |-> "front"]
                    /\ meshes[b].parent = [cell |-> g.cell, side |-> "back"]
    /\ Assembled =>
          \E p \in 0..Len(words) :
              /\ \A g \in Range(textGroup) : Len(FrontOf(g)) = p
              /\ Len(interactableMeshes) = 1 + 2 * G3 * p

C10_RegistryAppendOnly ==
    /\ []RegistryInv
    /\ [][IsPrefix(interactableMeshes, interactableMeshes')]_vars

\* assembly is over, a word was placed and registered and a later one dropped
C10_Witness ==
    /\ Assembled
    /\ Len(interactableMeshes) > 1
    /\ \E m \in Generated : meshes[m].parent = NoParent

====
